---- MODULE Spec2Model ----
(***************************************************************************)
(* Simple Artefact Registry: the route builder (build_urls) and the        *)
(* per-artefact request handler (ArtefactHandler.get / put / write_error)  *)
(* of src/src/simple_artefact_registry/__init__.py.                        *)
(*                                                                         *)
(* Python strings are sequences of one-character strings, so that          *)
(* startswith, slicing and concatenation are computed, not assumed.        *)
(* Python values are records [kind, val]: a dict is a function from keys   *)
(* (strings) to values, a str carries its characters, None carries nothing.*)
(***************************************************************************)
EXTENDS Integers, Sequences, FiniteSets, TLC

VARIABLES
    config,     \* the parsed value of config['artefacts']
    app,        \* "init" | "running" | "failed": position of run_server
    urls,       \* the list build_urls returned (the routing table)
    fs,         \* the filesystem: resolved path |-> directory or file with its bytes
    reqs,       \* per connection: the request being handled and its response so far
    lastput     \* history: resolved path |-> the body of the latest PUT answered 204

vars == <<config, app, urls, fs, reqs, lastput>>

(***************************** strings ************************************)

US == <<"_">>
SLASH == <<"/">>
s_read_token == <<"r","e","a","d","_","t","o","k","e","n">>
s_write_token == <<"w","r","i","t","e","_","t","o","k","e","n">>
s_base_directory == <<"b","a","s","e","_","d","i","r","e","c","t","o","r","y">>
s_path == <<"p","a","t","h">>
s_settings == <<"s","e","t","t","i","n","g","s">>
s_bearer == <<"b","e","a","r","e","r"," ">>
s_Authorization == <<"A","u","t","h","o","r","i","z","a","t","i","o","n">>
s_Host == <<"H","o","s","t">>
s_WWW_Authenticate == <<"W","W","W","-","A","u","t","h","e","n","t","i","c","a","t","e">>
s_realm == <<"b","e","a","r","e","r"," ","r","e","a","l","m","=","\"","S","i","m","p","l","e"," ","A","r","t","e","f","a","c","t"," ","R","e","g","i","s","t","r","y","\"">>

\* str.startswith(prefix)
StartsWith(s, prefix) ==
    /\ Len(s) >= Len(prefix)
    /\ SubSeq(s, 1, Len(prefix)) = prefix

\* s[n:]
SliceFrom(s, n) == SubSeq(s, n + 1, Len(s))

(*************************** Python values ********************************)

EmptyDict == [k \in {} |-> 0]
PyDict(f) == [kind |-> "dict", val |-> f]
PyStr(s) == [kind |-> "str", val |-> s]
PyNone == [kind |-> "none", val |-> <<>>]

\* dict.update(other): other's entries replace same-named ones
DictUpdate(d, other) ==
    [k \in DOMAIN d \cup DOMAIN other |-> IF k \in DOMAIN other THEN other[k] ELSE d[k]]

\* deepcopy of a settings dict: an equal value (values are immutable here)
deepcopy(d) == [k \in DOMAIN d |-> d[k]]

(************************** configuration trees ***************************)

T1 == <<"a","b","c">>
T2 == <<"x","y","z">>
D1 == <<"/","d">>
D2 == <<"/","d","/">>

\* The order in which a dict's keys are iterated (insertion order in Python;
\* one fixed order here, the claims do not depend on the order of siblings).
KeyOrder ==
    << US \o s_base_directory, US \o s_read_token, US \o s_write_token,
       <<"a">>, <<"a","/","b">>, <<"b">>, <<"c">> >>

SettingChoices ==
    { EmptyDict,
      (US \o s_read_token :> PyStr(T1)) @@ (US \o s_base_directory :> PyStr(D1)),
      (US \o s_read_token :> PyStr(T2)) @@ (US \o s_write_token :> PyStr(T1)) }

\* dict nodes with settings from choices and children, under some of keys, from vals
NodesOver(choices, keys, vals) ==
    { PyDict(s @@ c) : s \in choices,
                       c \in UNION { [K -> vals] : K \in SUBSET keys } }

\* rich in settings: two levels of directories' worth of inheritance, keys with '/',
\* and entries with an empty (null) value
SettingTrees ==
    LET leaves == NodesOver(SettingChoices, {}, {}) \cup {PyNone}
        dirs == NodesOver(SettingChoices, {<<"b">>, <<"c">>}, leaves) \cup {PyNone}
    IN  NodesOver(SettingChoices, {<<"a">>, <<"a","/","b">>}, dirs)

\* rich in shape: the same key at several levels, sibling directories
ShapeTrees ==
    LET leaves == NodesOver({EmptyDict}, {}, {})
        dirs == NodesOver({EmptyDict}, {<<"b">>, <<"c">>}, leaves)
    IN  NodesOver({EmptyDict}, {<<"a">>, <<"b">>, <<"a","/","b">>}, dirs)

\* deep: a chain root / a / b / c with settings at every level
DeepTrees ==
    LET leaves == NodesOver(SettingChoices, {}, {})
        l2 == NodesOver(SettingChoices, {<<"c">>}, leaves)
        l1 == NodesOver(SettingChoices, {<<"b">>}, l2)
    IN  NodesOver(SettingChoices, {<<"a">>}, l1)

Trees == SettingTrees \cup ShapeTrees \cup DeepTrees

(****************************** build_urls ********************************)

\* config.items(), as the sequence of keys in iteration order
Items(d) == SelectSeq(KeyOrder, LAMBDA k : k \in DOMAIN d)

\* dict([(key[1:], value) for key, value in config.items() if key.startswith('_')])
OwnSettings(d) ==
    [k \in { SliceFrom(key, 1) : key \in { x \in DOMAIN d : StartsWith(x, US) } }
        |-> d[US \o k]]

Route(url, settings) ==
    [url |-> url, handler |-> "ArtefactHandler",
     kwargs |-> [path |-> url, settings |-> settings]]

\* f'{base_url}/{key}'
child_url_without_base(base_url, key) == SLASH \o key
child_url(base_url, key) == base_url \o SLASH \o key

\* [k for k in value.keys() if not k.startswith('_')], as a truth value
HasAnyKeys(value) == DOMAIN value.val # {}
HasChildKeys(value) == \E k \in DOMAIN value.val : ~StartsWith(k, US)

Returned(list) == [ok |-> TRUE, urls |-> list, exc |-> "none"]
Raised(exc) == [ok |-> FALSE, urls |-> <<>>, exc |-> exc]

RECURSIVE build_urls(_, _, _)
RECURSIVE build_urls_loop(_, _, _, _, _, _)

\* the for loop of build_urls from its i-th artefact on, with urls so far
build_urls_loop(d, artefacts, base_url, settings, i, acc) ==
    IF i > Len(artefacts) THEN Returned(acc)
    ELSE LET key == artefacts[i]
             value == d[key]
         IN  IF value.kind # "dict" THEN Raised("AttributeError")
             ELSE IF HasChildKeys(value)
             THEN LET sub == build_urls(value, child_url(base_url, key), settings)
                  IN  IF sub.ok
                      THEN build_urls_loop(d, artefacts, base_url, settings, i + 1,
                                           acc \o sub.urls)
                      ELSE sub
             ELSE build_urls_loop(d, artefacts, base_url, settings, i + 1,
                                  Append(acc, Route(child_url(base_url, key), settings)))

\* base_settings is a settings dict; None and {} are both falsy and are both
\* the empty dict here
build_urls(cfg, base_url, base_settings) ==
    IF cfg.kind # "dict" THEN Raised("AttributeError")
    ELSE LET d == cfg.val
             artefacts == SelectSeq(Items(d), LAMBDA key : ~StartsWith(key, US))
             settings == IF DOMAIN base_settings # {}
                         THEN DictUpdate(deepcopy(base_settings), OwnSettings(d))
                         ELSE OwnSettings(d)
         IN  build_urls_loop(d, artefacts, base_url, settings, 1, <<>>)

(****************************** filesystem *******************************)

Dir == [kind |-> "dir", data |-> <<>>]
File(data) == [kind |-> "file", data |-> data]

RECURSIVE SplitFrom(_, _, _, _)
SplitFrom(path, i, cur, acc) ==
    IF i > Len(path) THEN (IF cur = <<>> THEN acc ELSE Append(acc, cur))
    ELSE IF path[i] = "/"
         THEN SplitFrom(path, i + 1, <<>>, IF cur = <<>> THEN acc ELSE Append(acc, cur))
         ELSE SplitFrom(path, i + 1, Append(cur, path[i]), acc)

\* how the operating system resolves an absolute path: its components, empty ones
\* (repeated or trailing '/') dropped
Resolve(path) == SplitFrom(path, 1, <<>>, <<>>)

Parent(comps) == SubSeq(comps, 1, Len(comps) - 1)
Prefixes(comps) == { SubSeq(comps, 1, n) : n \in 0..Len(comps) }

\* os.path.exists
exists(f, path) == path # <<>> /\ Resolve(path) \in DOMAIN f

RECURSIVE rfind_slash(_, _)
\* the index (from 1) of the last '/' of p[:i], 0 when there is none
rfind_slash(p, i) ==
    IF i = 0 THEN 0 ELSE IF p[i] = "/" THEN i ELSE rfind_slash(p, i - 1)

RECURSIVE rstrip_slash(_)
rstrip_slash(p) ==
    IF p # <<>> /\ p[Len(p)] = "/" THEN rstrip_slash(SubSeq(p, 1, Len(p) - 1)) ELSE p

\* os.path.dirname
dirname(p) ==
    LET head == SubSeq(p, 1, rfind_slash(p, Len(p)))
    IN  IF head # <<>> /\ \E j \in 1..Len(head) : head[j] # "/"
        THEN rstrip_slash(head)
        ELSE head

FsOk(f) == [ok |-> TRUE, fs |-> f, exc |-> "none"]
FsRaised(f, exc) == [ok |-> FALSE, fs |-> f, exc |-> exc]

\* os.mkdir in place of os.makedirs: only the last directory is created
makedirs_one_level(f, name) ==
    LET comps == Resolve(name)
    IN  IF comps \in DOMAIN f THEN FsRaised(f, "FileExistsError")
        ELSE IF Parent(comps) \notin DOMAIN f THEN FsRaised(f, "FileNotFoundError")
        ELSE IF f[Parent(comps)].kind # "dir" THEN FsRaised(f, "NotADirectoryError")
        ELSE FsOk([q \in DOMAIN f \cup {comps} |-> IF q = comps THEN Dir ELSE f[q]])

\* os.makedirs(name): every missing directory on the way is created; it fails,
\* creating nothing, when a component on the way is a regular file or when name exists
makedirs(f, name) ==
    LET comps == Resolve(name)
    IN  IF comps \in DOMAIN f THEN FsRaised(f, "FileExistsError")
        ELSE IF \E q \in Prefixes(comps) : q \in DOMAIN f /\ f[q].kind = "file"
        THEN FsRaised(f, "NotADirectoryError")
        ELSE FsOk([q \in DOMAIN f \cup Prefixes(comps) |->
                      IF q \in DOMAIN f THEN f[q] ELSE Dir])

\* the file opened 'ab' in place of 'wb': body is added to what the file holds
write_file_append(f, name, body) ==
    LET comps == Resolve(name)
    IN  IF comps \in DOMAIN f /\ f[comps].kind = "dir"
        THEN FsRaised(f, "IsADirectoryError")
        ELSE IF Parent(comps) \notin DOMAIN f THEN FsRaised(f, "FileNotFoundError")
        ELSE IF f[Parent(comps)].kind # "dir" THEN FsRaised(f, "NotADirectoryError")
        ELSE FsOk([q \in DOMAIN f \cup {comps} |->
                      IF q = comps
                      THEN File((IF comps \in DOMAIN f THEN f[comps].data ELSE <<>>)
                                \o body)
                      ELSE f[q]])

\* the file opened 'r+b' in place of 'wb': body overwrites the start of what the
\* file holds and the rest stays
write_file_keep_tail(f, name, body) ==
    LET comps == Resolve(name)
        old == IF comps \in DOMAIN f /\ f[comps].kind = "file" THEN f[comps].data
               ELSE <<>>
    IN  IF comps \in DOMAIN f /\ f[comps].kind = "dir"
        THEN FsRaised(f, "IsADirectoryError")
        ELSE IF Parent(comps) \notin DOMAIN f THEN FsRaised(f, "FileNotFoundError")
        ELSE IF f[Parent(comps)].kind # "dir" THEN FsRaised(f, "NotADirectoryError")
        ELSE FsOk([q \in DOMAIN f \cup {comps} |->
                      IF q = comps
                      THEN File(body \o SubSeq(old, Len(body) + 1, Len(old)))
                      ELSE f[q]])

\* with open(name, 'wb') as out_f: out_f.write(body)
\* the file is created or truncated, then holds body
write_file(f, name, body) ==
    LET comps == Resolve(name)
    IN  IF comps \in DOMAIN f /\ f[comps].kind = "dir"
        THEN FsRaised(f, "IsADirectoryError")
        ELSE IF Parent(comps) \notin DOMAIN f THEN FsRaised(f, "FileNotFoundError")
        ELSE IF f[Parent(comps)].kind # "dir" THEN FsRaised(f, "NotADirectoryError")
        ELSE FsOk([q \in DOMAIN f \cup {comps} |->
                      IF q = comps THEN File(<<>> \o body) ELSE f[q]])

\* the file opened 'wb' in place of 'rb': it is truncated
open_wb(f, name) ==
    LET comps == Resolve(name)
    IN  IF f[comps].kind = "dir" THEN FsRaised(f, "IsADirectoryError")
        ELSE FsOk([f EXCEPT ![comps] = File(<<>>)])

\* open(name, 'rb') of an existing path: a directory raises IsADirectoryError; the
\* filesystem is left as it is
open_rb(f, name) ==
    LET comps == Resolve(name)
    IN  IF f[comps].kind = "dir" THEN FsRaised(f, "IsADirectoryError")
        ELSE FsOk(f)

ChunkSize == 1024

\* the buffer of the BufferedReader that open(name, 'rb') returns
\* (io.DEFAULT_BUFFER_SIZE; a build may take the block size of the file's device
\* instead: every size above the largest file read behaves as this one)
BufferSize == 8192

Min(a, b) == IF a < b THEN a ELSE b

\* read(512) in place of read(1024)
read_chunk_half(f, comps, rawpos, buf) ==
    LET size == ChunkSize \div 2
    IN  IF Len(buf) >= size
        THEN [chunk |-> SubSeq(buf, 1, size),
              buf |-> SubSeq(buf, size + 1, Len(buf)), rawpos |-> rawpos]
        ELSE LET data == f[comps].data
                 fill == SubSeq(data, rawpos + 1, Min(rawpos + BufferSize, Len(data)))
                 all == buf \o fill
                 n == Min(size, Len(all))
             IN  [chunk |-> SubSeq(all, 1, n), buf |-> SubSeq(all, n + 1, Len(all)),
                  rawpos |-> rawpos + Len(fill)]

\* the bytes buffered beyond the chunk returned are lost
read_chunk_drop_buffer(f, comps, rawpos, buf) ==
    LET data == f[comps].data
        fill == SubSeq(data, rawpos + 1, Min(rawpos + BufferSize, Len(data)))
    IN  [chunk |-> SubSeq(fill, 1, Min(ChunkSize, Len(fill))), buf |-> <<>>,
         rawpos |-> rawpos + Len(fill)]

\* in_f.read(1024) on the buffered reader: rawpos is the offset of the file
\* descriptor, buf the bytes read from the file and not yet returned. A read that
\* buf can serve takes its 1024 bytes from buf; otherwise one read of the file at
\* rawpos, of what the file holds NOW and at most BufferSize bytes, refills buf
\* first. At the end of the file the chunk is what is left, possibly nothing.
read_chunk(f, comps, rawpos, buf) ==
    IF Len(buf) >= ChunkSize
    THEN [chunk |-> SubSeq(buf, 1, ChunkSize),
          buf |-> SubSeq(buf, ChunkSize + 1, Len(buf)), rawpos |-> rawpos]
    ELSE LET data == f[comps].data
             fill == SubSeq(data, rawpos + 1, Min(rawpos + BufferSize, Len(data)))
             all == buf \o fill
             n == Min(ChunkSize, Len(all))
         IN  [chunk |-> SubSeq(all, 1, n), buf |-> SubSeq(all, n + 1, Len(all)),
              rawpos |-> rawpos + Len(fill)]

(**************************** requests ************************************)

RECURSIVE Digits(_)
\* the decimal digits of n >= 0, as f'{status_code}' renders them
Digits(n) == IF n < 10 THEN <<n>> ELSE Append(Digits(n \div 10), n % 10)

\* the bytes of the text of n
StatusText(n) == [i \in 1..Len(Digits(n)) |-> 48 + Digits(n)[i]]

NoRequest == [put |-> FALSE, route |-> 0, body |-> <<>>, made |-> FALSE]

Idle ==
    [pc |-> "idle", method |-> "none", route |-> 0, headers |-> EmptyDict,
     body |-> <<>>, status |-> 0, rheaders |-> EmptyDict, out |-> <<>>,
     file |-> <<>>, rawpos |-> 0, buf |-> <<>>, pending |-> <<>>,
     closed |-> FALSE, broke |-> FALSE, made |-> FALSE, after |-> NoRequest,
     \* history of a GET: calls of in_f.read, lengths of the chunks given to
     \* self.write, awaits of gen.sleep, what the file held when it was opened and
     \* every content it held since
     reads |-> 0, writes |-> <<>>, sleeps |-> 0, snap |-> <<>>, versions |-> {}]

\* the challenge header set for 401 only
write_error_401_only(r, status_code) ==
    [r EXCEPT !.pc = "done", !.status = status_code,
              !.rheaders = IF status_code = 401 THEN (s_WWW_Authenticate :> s_realm)
                           ELSE EmptyDict,
              !.out = StatusText(status_code)]

\* ArtefactHandler.write_error: the response of a failed request
write_error(r, status_code) ==
    [r EXCEPT !.pc = "done", !.status = status_code,
              !.rheaders = (s_WWW_Authenticate :> s_realm),
              !.out = StatusText(status_code)]

\* the scheme prefix not checked: only auth[7:] is compared
get_unauthorised_without_scheme(settings, headers) ==
    IF s_read_token \in DOMAIN settings
    THEN IF DOMAIN headers # {} /\ s_Authorization \in DOMAIN headers
         THEN PyStr(SliceFrom(headers[s_Authorization], 7)) # settings[s_read_token]
         ELSE TRUE
    ELSE FALSE

\* the check made when either token is configured, against that token
get_unauthorised_either_token(settings, headers) ==
    LET name == IF s_read_token \in DOMAIN settings THEN s_read_token ELSE s_write_token
    IN  IF name \in DOMAIN settings
        THEN IF DOMAIN headers # {} /\ s_Authorization \in DOMAIN headers
             THEN LET auth == headers[s_Authorization]
                  IN  \/ ~StartsWith(auth, s_bearer)
                      \/ PyStr(SliceFrom(auth, 7)) # settings[name]
             ELSE TRUE
        ELSE FALSE

\* the read_token check of get: TRUE when HTTPError(401) is raised
get_unauthorised(settings, headers) ==
    IF s_read_token \in DOMAIN settings
    THEN IF DOMAIN headers # {} /\ s_Authorization \in DOMAIN headers
         THEN LET auth == headers[s_Authorization]
              IN  \/ ~StartsWith(auth, s_bearer)
                  \/ PyStr(SliceFrom(auth, 7)) # settings[s_read_token]
         ELSE TRUE
    ELSE FALSE

\* the else branch left out: a request without Authorization passes
put_unauthorised_header_optional(settings, headers) ==
    IF s_write_token \in DOMAIN settings
    THEN IF DOMAIN headers # {} /\ s_Authorization \in DOMAIN headers
         THEN LET auth == headers[s_Authorization]
              IN  \/ ~StartsWith(auth, s_bearer)
                  \/ PyStr(SliceFrom(auth, 7)) # settings[s_write_token]
         ELSE FALSE
    ELSE FALSE

\* the write_token check of put: TRUE when HTTPError(401) is raised
put_unauthorised(settings, headers) ==
    IF s_write_token \in DOMAIN settings
    THEN IF DOMAIN headers # {} /\ s_Authorization \in DOMAIN headers
         THEN LET auth == headers[s_Authorization]
              IN  \/ ~StartsWith(auth, s_bearer)
                  \/ PyStr(SliceFrom(auth, 7)) # settings[s_write_token]
         ELSE TRUE
    ELSE FALSE

\* self._settings.get("base_directory", '') in place of the subscript
base_directory_or_empty(settings) ==
    IF s_base_directory \in DOMAIN settings
    THEN [ok |-> TRUE, val |-> settings[s_base_directory].val]
    ELSE [ok |-> TRUE, val |-> <<>>]

\* self._settings["base_directory"]: KeyError (ok FALSE) when the route has none
base_directory(settings) ==
    IF s_base_directory \in DOMAIN settings
    THEN [ok |-> TRUE, val |-> settings[s_base_directory].val]
    ELSE [ok |-> FALSE, val |-> <<>>]

\* f'{self._settings["base_directory"]}{self._path}'
file_path(settings, path) == base_directory(settings).val \o path

\* the loop left at the first short chunk, which is not written
get_read_drop_partial(r, f) ==
    LET rd == read_chunk(f, r.file, r.rawpos, r.buf)
    IN  IF Len(rd.chunk) < ChunkSize
        THEN [r EXCEPT !.pc = "done", !.rawpos = rd.rawpos, !.buf = rd.buf,
                       !.reads = @ + 1]
        ELSE [r EXCEPT !.pc = "get_flush", !.rawpos = rd.rawpos, !.buf = rd.buf,
                       !.pending = rd.chunk, !.reads = @ + 1,
                       !.writes = Append(@, Len(rd.chunk))]

\* one pass of the body of get's while loop up to its first await: read a chunk;
\* none left ends the request, else the chunk is written and flush is awaited
get_read(r, f) ==
    LET rd == read_chunk(f, r.file, r.rawpos, r.buf)
    IN  IF rd.chunk = <<>>
        THEN [r EXCEPT !.pc = "done", !.rawpos = rd.rawpos, !.buf = rd.buf,
                       !.reads = @ + 1]
        ELSE [r EXCEPT !.pc = "get_flush", !.rawpos = rd.rawpos, !.buf = rd.buf,
                       !.pending = rd.chunk, !.reads = @ + 1,
                       !.writes = Append(@, Len(rd.chunk))]

\* 'pass' in place of 'break' in the except clause
flushed_without_break(r) ==
    IF r.closed
    THEN [r EXCEPT !.pc = "get_sleep", !.pending = <<>>, !.sleeps = @ + 1]
    ELSE [r EXCEPT !.pc = "get_sleep", !.pending = <<>>, !.out = @ \o r.pending,
                   !.sleeps = @ + 1]

\* the rest of the pass once 'await self.flush()' is over: it returned and the
\* chunk is with the peer, or it raised StreamClosedError and the except clause
\* breaks; either way the finally clause awaits gen.sleep before the break or the
\* next pass takes place
flushed(r) ==
    IF r.closed
    THEN [r EXCEPT !.pc = "get_sleep", !.pending = <<>>, !.broke = TRUE,
                   !.sleeps = @ + 1]
    ELSE [r EXCEPT !.pc = "get_sleep", !.pending = <<>>, !.out = @ \o r.pending,
                   !.sleeps = @ + 1]

\* the existence check made before the read_token check
get_begin_exists_first(r, path, settings, f) ==
    IF ~base_directory(settings).ok THEN [resp |-> write_error(r, 500), fs |-> f]
    ELSE IF ~exists(f, file_path(settings, path))
    THEN [resp |-> write_error(r, 404), fs |-> f]
    ELSE IF get_unauthorised(settings, r.headers)
    THEN [resp |-> write_error(r, 401), fs |-> f]
    ELSE LET name == file_path(settings, path)
             opened == open_rb(f, name)
         IN  IF ~opened.ok THEN [resp |-> write_error(r, 500), fs |-> opened.fs]
             ELSE [resp |-> get_read([r EXCEPT !.status = 200,
                                               !.file = Resolve(name),
                                               !.snap = f[Resolve(name)].data,
                                               !.versions = {f[Resolve(name)].data}],
                                     opened.fs),
                   fs |-> opened.fs]

\* get, from the request's arrival to its first await or its end; a KeyError or
\* OSError is an unhandled exception, which Tornado renders by write_error(500)
get_begin(r, path, settings, f) ==
    IF get_unauthorised(settings, r.headers)
    THEN [resp |-> write_error(r, 401), fs |-> f]
    ELSE IF ~base_directory(settings).ok THEN [resp |-> write_error(r, 500), fs |-> f]
    ELSE IF ~exists(f, file_path(settings, path))
    THEN [resp |-> write_error(r, 404), fs |-> f]
    ELSE LET name == file_path(settings, path)
             opened == open_rb(f, name)
         IN  IF ~opened.ok THEN [resp |-> write_error(r, 500), fs |-> opened.fs]
             ELSE [resp |-> get_read([r EXCEPT !.status = 200,
                                               !.file = Resolve(name),
                                               !.snap = f[Resolve(name)].data,
                                               !.versions = {f[Resolve(name)].data}],
                                     opened.fs),
                   fs |-> opened.fs]

\* put: the response and the filesystem after it
put(r, path, settings, f) ==
    IF put_unauthorised(settings, r.headers)
    THEN [resp |-> write_error(r, 401), fs |-> f]
    ELSE IF ~base_directory(settings).ok
    THEN [resp |-> write_error(r, 500), fs |-> f]
    ELSE LET name == file_path(settings, path)
             dirs == IF ~exists(f, dirname(name)) THEN makedirs(f, dirname(name))
                     ELSE FsOk(f)
             wrote == IF dirs.ok THEN write_file(dirs.fs, name, r.body) ELSE dirs
         IN  IF wrote.ok
             THEN [resp |-> [r EXCEPT !.pc = "done", !.status = 204,
                                      !.made = ~exists(f, dirname(name))],
                   fs |-> wrote.fs]
             ELSE [resp |-> write_error(r, 500), fs |-> wrote.fs]

\* history: what the request before this one on the connection stored, if it was
\* a PUT answered 204
Summary(r) ==
    IF r.method = "PUT" /\ r.status = 204
    THEN [put |-> TRUE, route |-> r.route, body |-> r.body, made |-> r.made]
    ELSE NoRequest

\* the route that answers a request for the URL of urls[i]: the first with that URL
Routed(i) == \A j \in 1..(i - 1) : urls[j].url # urls[i].url

(******************************* inputs ***********************************)

Capitalised == <<"B","e","a","r","e","r"," ">>
NoSpace == <<"b","e","a","r","e","r">>

\* Authorization values: the two tokens with the scheme, a capitalised scheme, no
\* scheme, a token with one more character, the scheme without its space
AuthValues ==
    { s_bearer \o T1, s_bearer \o T2, Capitalised \o T1, T1,
      s_bearer \o T1 \o <<"d">>, NoSpace }

\* request headers: none at all, some but no Authorization, an Authorization
HeaderChoices ==
    {EmptyDict, s_Host :> <<"h">>} \cup { s_Authorization :> v : v \in AuthValues }

ShortLen == 3
Bytes(n, seed) == [i \in 1..n |-> (7 * i + seed) % 256]

Bodies ==
    { Bytes(0, 0), Bytes(ShortLen, 1), Bytes(ChunkSize, 2),
      Bytes(2 * ChunkSize + ShortLen, 3) }

CfgTokens ==
    PyDict((US \o s_base_directory :> PyStr(D1)) @@ (US \o s_read_token :> PyStr(T1))
           @@ (US \o s_write_token :> PyStr(T2))
           @@ (<<"a">> :> PyDict(<<"b">> :> PyDict(EmptyDict))))

CfgOverlap ==
    PyDict((US \o s_base_directory :> PyStr(D1))
           @@ (<<"a">> :> PyDict(EmptyDict))
           @@ (<<"a","/","b">> :> PyDict(EmptyDict)))

CfgNoBase ==
    PyDict(<<"a">> :> PyDict((US \o s_read_token :> PyStr(T1))
                             @@ (<<"b">> :> PyDict(EmptyDict))))

CfgWriteOnly ==
    PyDict((US \o s_base_directory :> PyStr(D2))
           @@ (<<"b">> :> PyDict((US \o s_write_token :> PyStr(T1))
                                 @@ (<<"c">> :> PyDict(EmptyDict)))))

\* one route without base_directory beside one with it
CfgMixed ==
    PyDict((<<"a">> :> PyDict((US \o s_read_token :> PyStr(T1))
                              @@ (<<"b">> :> PyDict(EmptyDict))))
           @@ (<<"b">> :> PyDict((US \o s_base_directory :> PyStr(D1))
                                 @@ (<<"c">> :> PyDict(EmptyDict)))))

ServerConfigs == {CfgTokens, CfgOverlap, CfgNoBase, CfgWriteOnly, CfgMixed}

SequentialHandlers == {"h1"}

\* two connections served by the one IOLoop, on the route of CfgWriteOnly
ConcurrentHandlers == {"h1", "h2"}
ConcurrentConfigs == {CfgWriteOnly}
ConcurrentHeaders == {EmptyDict, s_Authorization :> (s_bearer \o T1)}
ConcurrentBodies == { Bytes(ShortLen, 1), Bytes(ChunkSize + ShortLen, 3) }

(****************************** actions ***********************************)

\* build_app / run_server: the routing table is built once at startup
BuildApp ==
    /\ app = "init"
    /\ LET r == build_urls(config, <<>>, EmptyDict)
       IN  /\ app' = IF r.ok THEN "running" ELSE "failed"
           /\ urls' = r.urls
    /\ UNCHANGED <<config, fs, reqs, lastput>>

Free(h) == reqs[h].pc \in {"idle", "done"}

Arrive(h, method, i, headers, body) ==
    [Idle EXCEPT !.method = method, !.route = i, !.headers = headers,
                 !.body = body, !.after = Summary(reqs[h])]

\* a GET arrives on connection h for route i and runs to its first await
Get(h, i, headers) ==
    /\ app = "running" /\ Free(h) /\ Routed(i)
    /\ LET r == get_begin(Arrive(h, "GET", i, headers, <<>>),
                          urls[i].kwargs.path, urls[i].kwargs.settings, fs)
       IN  /\ reqs' = [reqs EXCEPT ![h] = r.resp]
           /\ fs' = r.fs
    /\ UNCHANGED <<config, app, urls, lastput>>

\* await self.flush() returns, or raises StreamClosedError when the peer has
\* closed the connection; either way the finally clause awaits gen.sleep
GetFlushed(h) ==
    /\ reqs[h].pc = "get_flush"
    /\ reqs' = [reqs EXCEPT ![h] = flushed(reqs[h])]
    /\ UNCHANGED <<config, app, urls, fs, lastput>>

\* await gen.sleep returns: a pending break leaves the loop, else the next pass
GetSlept(h) ==
    /\ reqs[h].pc = "get_sleep"
    /\ LET r == IF reqs[h].broke THEN [reqs[h] EXCEPT !.pc = "done"]
                ELSE get_read(reqs[h], fs)
       IN  reqs' = [reqs EXCEPT ![h] = r]
    /\ UNCHANGED <<config, app, urls, fs, lastput>>

\* the peer closes the connection of a GET that is streaming
PeerClose(h) ==
    /\ reqs[h].pc \in {"get_flush", "get_sleep"}
    /\ ~reqs[h].closed
    /\ reqs' = [reqs EXCEPT ![h].closed = TRUE]
    /\ UNCHANGED <<config, app, urls, fs, lastput>>

\* history: a GET that has its file open notes what the file holds in f
Observe(r, f) ==
    IF r.pc \in {"get_flush", "get_sleep"}
    THEN [r EXCEPT !.versions = @ \cup {f[r.file].data}]
    ELSE r

\* a PUT arrives on connection h for route i: put has no await, it is one step
Put(h, i, headers, body) ==
    /\ app = "running" /\ Free(h) /\ Routed(i)
    /\ LET settings == urls[i].kwargs.settings
           p == put(Arrive(h, "PUT", i, headers, body), urls[i].kwargs.path,
                    settings, fs)
       IN  /\ reqs' = [k \in DOMAIN reqs |->
                          IF k = h THEN p.resp ELSE Observe(reqs[k], p.fs)]
           /\ fs' = p.fs
           /\ lastput' =
                 IF p.resp.status = 204
                 THEN [q \in DOMAIN lastput
                            \cup {Resolve(file_path(settings, urls[i].kwargs.path))} |->
                          IF q = Resolve(file_path(settings, urls[i].kwargs.path))
                          THEN body ELSE lastput[q]]
                 ELSE lastput
    /\ UNCHANGED <<config, app, urls>>

InitWith(configs, handlers) ==
    /\ config \in configs
    /\ app = "init"
    /\ urls = <<>>
    /\ fs = (<<>> :> Dir)
    /\ reqs = [h \in handlers |-> Idle]
    /\ lastput = EmptyDict

Init == InitWith(ServerConfigs, SequentialHandlers)

Next ==
    \/ BuildApp
    \/ \E h \in DOMAIN reqs, i \in 1..Len(urls), headers \in HeaderChoices :
          Get(h, i, headers)
    \/ \E h \in DOMAIN reqs : GetFlushed(h)
    \/ \E h \in DOMAIN reqs : GetSlept(h)
    \/ \E h \in DOMAIN reqs : PeerClose(h)
    \/ \E h \in DOMAIN reqs, i \in 1..Len(urls), headers \in HeaderChoices,
          body \in Bodies : Put(h, i, headers, body)

Spec == Init /\ [][Next]_vars

\* the IOLoop runs every callback that is ready: a flush on an open connection
\* whose peer reads completes, a flush on a closed one fails, a sleep ends
SpecLive ==
    /\ Init /\ [][Next]_vars
    /\ \A h \in SequentialHandlers : WF_vars(GetFlushed(h)) /\ WF_vars(GetSlept(h))

InitConcurrent == InitWith(ConcurrentConfigs, ConcurrentHandlers)

\* the steps of the handlers, taken by either connection in any order; both
\* peers stay connected
NextConcurrent ==
    \/ BuildApp
    \/ \E h \in DOMAIN reqs, i \in 1..Len(urls), headers \in ConcurrentHeaders :
          Get(h, i, headers)
    \/ \E h \in DOMAIN reqs : GetFlushed(h)
    \/ \E h \in DOMAIN reqs : GetSlept(h)
    \/ \E h \in DOMAIN reqs, i \in 1..Len(urls), headers \in ConcurrentHeaders,
          body \in ConcurrentBodies : Put(h, i, headers, body)

SpecConcurrent == InitConcurrent /\ [][NextConcurrent]_vars

InitBuild == InitWith(Trees, {})

NextBuild == BuildApp

SpecBuild == InitBuild /\ [][NextBuild]_vars

(************************ the tree, read directly **************************)

ChildKeyUniverse == {<<"a">>, <<"b">>, <<"c">>, <<"a","/","b">>}
MaxDepth == 3
Paths == UNION { [1..n -> ChildKeyUniverse] : n \in 1..MaxDepth }

Missing == [kind |-> "missing", val |-> <<>>]

RECURSIVE NodeAt(_, _)
\* the value reached from v by following the keys of p
NodeAt(v, p) ==
    IF p = <<>> THEN v
    ELSE IF v.kind = "dict" /\ Head(p) \in DOMAIN v.val
         THEN NodeAt(v.val[Head(p)], Tail(p))
         ELSE Missing

IsLeaf(v) == v.kind = "dict" /\ \A k \in DOMAIN v.val : StartsWith(k, US)
IsDirectory(v) == v.kind = "dict" /\ \E k \in DOMAIN v.val : ~StartsWith(k, US)

LeafPaths(cfg) == { p \in Paths : IsLeaf(NodeAt(cfg, p)) }
DirectoryPaths(cfg) == { p \in Paths : IsDirectory(NodeAt(cfg, p)) }

\* every entry of the tree is a mapping (no null or scalar entries)
IsTree(cfg) ==
    /\ cfg.kind = "dict"
    /\ \A p \in Paths : NodeAt(cfg, p).kind \in {"dict", "missing"}

RECURSIVE UrlOf(_)
\* '/' + the '/'-joined keys of p
UrlOf(p) == IF p = <<>> THEN <<>> ELSE SLASH \o Head(p) \o UrlOf(Tail(p))

HasSlash(key) == \E i \in 1..Len(key) : key[i] = "/"

NoSlashKeys(cfg) ==
    \A p \in Paths : NodeAt(cfg, p).kind = "dict" => ~HasSlash(p[Len(p)])

SettingNames == {s_read_token, s_write_token, s_base_directory}

RECURSIVE Nearest(_, _, _)
\* the setting name as set by the nearest node on the path p, the node at p first;
\* Missing when no node on the path sets it
Nearest(cfg, p, name) ==
    LET node == NodeAt(cfg, p)
    IN  IF US \o name \in DOMAIN node.val THEN node.val[US \o name]
        ELSE IF p = <<>> THEN Missing
        ELSE Nearest(cfg, SubSeq(p, 1, Len(p) - 1), name)

RoutesWithUrl(u) == { i \in 1..Len(urls) : urls[i].url = u }

(******************************* C1 ***************************************)

\* C1: for every tree of mappings build_urls returns, and the routes it returns
\* are one per leaf entry and none for a directory entry: each URL is the URL of
\* as many routes as there are leaves whose '/' + '/'-joined key chain it is, and
\* every route's handler path is its URL.
C1_OneRoutePerLeaf ==
    (app # "init" /\ IsTree(config)) =>
        LET leaves == LeafPaths(config)
            leafUrls == { UrlOf(q) : q \in leaves }
        IN  /\ app = "running"
            /\ Len(urls) = Cardinality(leaves)
            /\ \A u \in leafUrls :
                  Cardinality(RoutesWithUrl(u))
                      = Cardinality({ q \in leaves : UrlOf(q) = u })
            /\ \A p \in DirectoryPaths(config) :
                  UrlOf(p) \notin leafUrls => RoutesWithUrl(UrlOf(p)) = {}
            /\ \A i \in 1..Len(urls) :
                  /\ urls[i].kwargs.path = urls[i].url
                  /\ urls[i].url \in leafUrls

\* a tree with a leaf that carries settings, a leaf two levels down and a
\* directory, after build_urls returned
C1_Witness ==
    /\ app = "running"
    /\ IsTree(config)
    /\ DirectoryPaths(config) # {}
    /\ \E p \in LeafPaths(config) : Len(p) >= 2 /\ DOMAIN NodeAt(config, p).val # {}
    /\ Len(urls) >= 2

(******************************* C2 ***************************************)

\* C2: every route's read_token, write_token and base_directory is the leaf's own
\* setting if it has one, else the nearest ancestor's, else absent.
C2_LeafThenNearestAncestor ==
    (app = "running" /\ IsTree(config)) =>
        \A p \in LeafPaths(config) : \A i \in RoutesWithUrl(UrlOf(p)) :
            (Len(urls) = Cardinality({ urls[j].url : j \in 1..Len(urls) })) =>
                \A name \in SettingNames :
                    LET want == Nearest(config, p, name)
                        got == urls[i].kwargs.settings
                    IN  IF want = Missing THEN name \notin DOMAIN got
                        ELSE name \in DOMAIN got /\ got[name] = want

\* what the code does: the leaf's own settings are not read, the route carries
\* the settings of the leaf's parent chain
C2_NearestAncestorOnly ==
    (app = "running" /\ IsTree(config)) =>
        \A p \in LeafPaths(config) : \A i \in RoutesWithUrl(UrlOf(p)) :
            (Len(urls) = Cardinality({ urls[j].url : j \in 1..Len(urls) })) =>
                \A name \in SettingNames :
                    LET want == Nearest(config, SubSeq(p, 1, Len(p) - 1), name)
                        got == urls[i].kwargs.settings
                    IN  IF want = Missing THEN name \notin DOMAIN got
                        ELSE name \in DOMAIN got /\ got[name] = want

(********************** requests, read directly ***************************)

SettingsOf(r) == urls[r.route].kwargs.settings
HasBase(r) == s_base_directory \in DOMAIN SettingsOf(r)

\* where the operating system finds base_directory + url_path
Target(r) == Resolve(SettingsOf(r)[s_base_directory].val \o urls[r.route].url)

IsFile(f, comps) == comps \in DOMAIN f /\ f[comps].kind = "file"
IsAbsent(f, comps) == comps \notin DOMAIN f
ProperPrefixes(comps) == { SubSeq(comps, 1, n) : n \in 0..(Len(comps) - 1) }

\* nothing on the way makes the write fail: no directory at the path itself, no
\* regular file where a directory is needed
Storable(f, comps) ==
    /\ ~(comps \in DOMAIN f /\ f[comps].kind = "dir")
    /\ \A q \in ProperPrefixes(comps) : q \in DOMAIN f => f[q].kind = "dir"

\* the Authorization header is exactly 'bearer ' followed by the token
Presents(r, token) ==
    /\ s_Authorization \in DOMAIN r.headers
    /\ token.kind = "str"
    /\ r.headers[s_Authorization] = s_bearer \o token.val

MayRead(r) ==
    s_read_token \in DOMAIN SettingsOf(r) => Presents(r, SettingsOf(r)[s_read_token])
MayWrite(r) ==
    s_write_token \in DOMAIN SettingsOf(r) => Presents(r, SettingsOf(r)[s_write_token])

\* connection h takes a step of a PUT: put ran, from arrival to response (with
\* one connection every step that leaves a PUT's record is a step of put)
PutStep(h) == reqs'[h].method = "PUT" /\ (reqs'[h] # reqs[h] \/ fs' # fs)

Text401 == <<52, 48, 49>>
Text404 == <<52, 48, 52>>
Text500 == <<53, 48, 48>>

(******************************* C3 ***************************************)

\* C3: on a route with read_token T a GET is answered 401 exactly when the
\* Authorization header is missing or is not 'bearer ' + T; with the header
\* matching, it is answered 200 when the file exists and 404 when nothing does.
C3_ReadTokenGate ==
    \A h \in DOMAIN reqs :
        LET r == reqs[h]
        IN  (r.method = "GET" /\ s_read_token \in DOMAIN SettingsOf(r)) =>
                /\ r.status = 401 <=> ~Presents(r, SettingsOf(r)[s_read_token])
                /\ (MayRead(r) /\ HasBase(r) /\ IsFile(fs, Target(r))) => r.status = 200
                /\ (MayRead(r) /\ HasBase(r) /\ IsAbsent(fs, Target(r))) => r.status = 404

\* a GET with the matching header on a read-protected route, the file stored
C3_Witness ==
    \E h \in DOMAIN reqs :
        LET r == reqs[h]
        IN  /\ r.method = "GET" /\ r.pc = "done"
            /\ s_read_token \in DOMAIN SettingsOf(r)
            /\ Presents(r, SettingsOf(r)[s_read_token])
            /\ HasBase(r) /\ IsFile(fs, Target(r))
            /\ r.status = 200

(******************************* C4 ***************************************)

\* C4: on a route with write_token T a PUT whose Authorization header is missing
\* or is not 'bearer ' + T is answered 401 and changes nothing in the
\* filesystem: no file content, no new file, no new directory.
C4_UnauthorisedPutChangesNothing ==
    [][ \A h \in DOMAIN reqs :
            (PutStep(h) /\ s_write_token \in DOMAIN SettingsOf(reqs'[h])
                        /\ ~Presents(reqs'[h], SettingsOf(reqs'[h])[s_write_token]))
                => (reqs'[h].status = 401 /\ fs' = fs) ]_vars

\* a refused PUT that carries an Authorization header and a body, the file stored
\* and still holding other bytes than that body
C4_Witness ==
    \E h \in DOMAIN reqs :
        LET r == reqs[h]
        IN  /\ r.method = "PUT" /\ r.pc = "done" /\ r.status = 401
            /\ s_write_token \in DOMAIN SettingsOf(r)
            /\ s_Authorization \in DOMAIN r.headers
            /\ IsFile(fs, Target(r))
            /\ fs[Target(r)].data # r.body
            /\ r.body # <<>>

(******************************* C5 ***************************************)

\* C5: a PUT that is authorised (no write_token, or the matching header), on a
\* route with a base_directory and a path the filesystem can store, is answered
\* 204 with no body and leaves the file holding exactly the request body,
\* whatever it held before; when the file already held the body, nothing changes.
C5_PutReplacesContent ==
    [][ \A h \in DOMAIN reqs :
            (PutStep(h) /\ MayWrite(reqs'[h]) /\ HasBase(reqs'[h])
                        /\ Storable(fs, Target(reqs'[h])))
                => /\ reqs'[h].status = 204
                   /\ reqs'[h].out = <<>>
                   /\ fs'[Target(reqs'[h])] = File(reqs'[h].body)
                   /\ (IsFile(fs, Target(reqs'[h]))
                         /\ fs[Target(reqs'[h])].data = reqs'[h].body) => fs' = fs ]_vars

\* a shorter body stored over a longer one by the PUT before it on the same route
C5_Witness ==
    \E h \in DOMAIN reqs :
        LET r == reqs[h]
        IN  /\ r.method = "PUT" /\ r.pc = "done" /\ r.status = 204
            /\ r.after.put /\ r.after.route = r.route
            /\ Len(r.after.body) > Len(r.body)
            /\ r.body # <<>>
            /\ fs[Target(r)].data = r.body

(******************************* C6 ***************************************)

\* C6: a GET that follows a PUT answered 204 on the same route, is authorised and
\* is not cut by the peer, is answered 200 and delivers exactly the bytes of that
\* PUT's body.
C6_RoundTrip ==
    \A h \in DOMAIN reqs :
        LET r == reqs[h]
        IN  (r.method = "GET" /\ r.pc = "done" /\ ~r.closed /\ MayRead(r)
                /\ r.after.put /\ r.after.route = r.route)
                => (r.status = 200 /\ r.out = r.after.body)

\* the round trip of a body of two full chunks and a partial one
C6_Witness ==
    \E h \in DOMAIN reqs :
        LET r == reqs[h]
        IN  /\ r.method = "GET" /\ r.pc = "done" /\ ~r.closed
            /\ r.after.put /\ r.after.route = r.route
            /\ r.status = 200
            /\ Len(r.out) > 2 * ChunkSize
            /\ r.out = r.after.body

(******************************* C7 ***************************************)

\* C7: on a route without read_token no GET is answered 401, whatever headers it
\* carries; it is answered 200 when the file exists and 404 when nothing does.
C7_NoReadTokenNeverRefuses ==
    \A h \in DOMAIN reqs :
        LET r == reqs[h]
        IN  (r.method = "GET" /\ s_read_token \notin DOMAIN SettingsOf(r)) =>
                /\ r.status # 401
                /\ (HasBase(r) /\ IsFile(fs, Target(r))) => r.status = 200
                /\ (HasBase(r) /\ IsAbsent(fs, Target(r))) => r.status = 404

\* a GET without any header served from a route that has a write_token only
C7_Witness ==
    \E h \in DOMAIN reqs :
        LET r == reqs[h]
        IN  /\ r.method = "GET" /\ r.pc = "done" /\ r.status = 200
            /\ s_read_token \notin DOMAIN SettingsOf(r)
            /\ s_write_token \in DOMAIN SettingsOf(r)
            /\ s_Authorization \notin DOMAIN r.headers

(******************************* C8 ***************************************)

\* C8: every error response (401, 404, and the 500 of an unhandled failure)
\* carries WWW-Authenticate: bearer realm="Simple Artefact Registry" and has the
\* status code as text for its body.
C8_ErrorResponses ==
    \A h \in DOMAIN reqs :
        LET r == reqs[h]
        IN  (r.status >= 400) =>
                /\ s_WWW_Authenticate \in DOMAIN r.rheaders
                /\ r.rheaders[s_WWW_Authenticate] = s_realm
                /\ r.status \in {401, 404, 500}
                /\ r.out = CASE r.status = 401 -> Text401
                             [] r.status = 404 -> Text404
                             [] r.status = 500 -> Text500

\* a GET answered 404
C8_Witness ==
    \E h \in DOMAIN reqs :
        reqs[h].method = "GET" /\ reqs[h].status = 404 /\ reqs[h].out = Text404

(******************************* C9 ***************************************)

\* C9: an authorised PUT to a route whose parent directory is missing (and no
\* regular file is in the way) makes every directory on the way, stores the body
\* and is answered 204; an authorised GET that follows a PUT answered 204 on the
\* same route is answered 200.
C9_PutMakesDirectories ==
    [][ \A h \in DOMAIN reqs :
            /\ (PutStep(h) /\ MayWrite(reqs'[h]) /\ HasBase(reqs'[h])
                    /\ Parent(Target(reqs'[h])) \notin DOMAIN fs
                    /\ Storable(fs, Target(reqs'[h])))
                => /\ reqs'[h].status = 204
                   /\ \A q \in ProperPrefixes(Target(reqs'[h])) :
                          q \in DOMAIN fs' /\ fs'[q].kind = "dir"
                   /\ IsFile(fs', Target(reqs'[h]))
            /\ (reqs[h].method = "PUT" /\ reqs[h].status = 204
                    /\ reqs'[h].method = "GET" /\ reqs'[h].route = reqs[h].route
                    /\ MayRead(reqs'[h]))
                => reqs'[h].status = 200 ]_vars

\* a GET answered 200 right after the PUT that made the directories
C9_Witness ==
    \E h \in DOMAIN reqs :
        LET r == reqs[h]
        IN  /\ r.method = "GET" /\ r.status = 200
            /\ r.after.put /\ r.after.made /\ r.after.route = r.route
            /\ Len(Target(r)) >= 3

(******************************* C10 **************************************)

\* C10 as stated: no two routes of the returned list have the same url_path,
\* whatever the key names, keys containing '/' included.
C10_NoDuplicateUrls ==
    (app = "running" /\ IsTree(config)) =>
        \A i, j \in 1..Len(urls) : urls[i].url = urls[j].url => i = j

\* C10 amended: no two routes have the same url_path when no key contains '/'.
C10_NoDuplicateUrlsWithoutSlash ==
    (app = "running" /\ IsTree(config) /\ NoSlashKeys(config)) =>
        \A i, j \in 1..Len(urls) : urls[i].url = urls[j].url => i = j

\* sibling directories with equally named leaves, no key with '/'
C10_Witness ==
    /\ app = "running"
    /\ IsTree(config)
    /\ NoSlashKeys(config)
    /\ \E p, q \in LeafPaths(config) :
          /\ Len(p) = 2 /\ Len(q) = 2
          /\ p[1] # q[1] /\ p[2] = q[2]

(******************************* C11 **************************************)

\* the entries written as a key with an empty value, as 'file_name:' is in the
\* module documentation
NullPaths(cfg) == { p \in Paths : NodeAt(cfg, p).kind = "none" }

\* C11: for a configuration of the documented shape, in which a leaf entry is a
\* key with a null value, build_urls returns, and the list it returns has the
\* route '/' + the '/'-joined keys for every such entry.
C11_NullLeafAccepted ==
    (app # "init" /\ config.kind = "dict" /\ NullPaths(config) # {}) =>
        /\ app = "running"
        /\ \A p \in NullPaths(config) : RoutesWithUrl(UrlOf(p)) # {}

(******************************* C12 **************************************)

\* C12: under every interleaving of the GETs and PUTs of two connections, a PUT
\* is never found part-way (it is one step), and every file is a file that a PUT
\* answered 204 wrote, holding exactly the body of the latest such PUT to its
\* path; the path of a route is absent or such a file.
C12_LastWriterWins ==
    /\ \A h \in DOMAIN reqs : reqs[h].method = "PUT" => reqs[h].pc = "done"
    /\ \A q \in DOMAIN fs :
          fs[q].kind = "file" => q \in DOMAIN lastput /\ fs[q].data = lastput[q]
    /\ \A i \in 1..Len(urls) :
          LET settings == urls[i].kwargs.settings
              target == Resolve(file_path(settings, urls[i].kwargs.path))
          IN  base_directory(settings).ok =>
                  \/ target \notin DOMAIN fs
                  \/ fs[target].kind = "file" /\ fs[target].data = lastput[target]

\* a connection has stored two different bodies one after the other while a GET
\* on the other connection, between two of its chunks, saw the file change
C12_Witness ==
    \E h, k \in DOMAIN reqs :
        /\ reqs[h].method = "PUT" /\ reqs[h].status = 204
        /\ reqs[h].after.put /\ reqs[h].after.body # reqs[h].body
        /\ reqs[k].method = "GET" /\ reqs[k].pc \in {"get_flush", "get_sleep"}
        /\ Cardinality(reqs[k].versions) >= 2
        /\ fs[reqs[k].file].data = reqs[h].body

(******************************* C13 **************************************)

Delivered(r) ==
    r.method = "GET" /\ r.pc = "done" /\ r.status = 200 /\ ~r.closed

\* C13 as stated: the body of a GET answered 200 in full is one of the contents
\* the file held during the request, also when PUTs ran between its chunks.
C13_SnapshotRead ==
    \A h \in DOMAIN reqs :
        Delivered(reqs[h]) => reqs[h].out \in reqs[h].versions

\* C13 amended: the body of a GET answered 200 in full, during which the file held
\* one content only (no PUT changed it), is that content.
C13_SnapshotReadWithoutWrite ==
    \A h \in DOMAIN reqs :
        (Delivered(reqs[h]) /\ reqs[h].versions = {reqs[h].snap}) =>
            reqs[h].out = reqs[h].snap

\* a GET delivered more than one chunk of a file that no PUT changed meanwhile,
\* while the other connection was refused a PUT
C13_Witness ==
    \E h, k \in DOMAIN reqs :
        /\ Delivered(reqs[h]) /\ reqs[h].versions = {reqs[h].snap}
        /\ Len(reqs[h].writes) >= 2 /\ Len(reqs[h].out) > ChunkSize
        /\ reqs[k].method = "PUT" /\ reqs[k].status = 401

(******************************* C14 **************************************)

\* the request that r answers, as it arrived
RequestOf(r) ==
    [Idle EXCEPT !.method = r.method, !.route = r.route, !.headers = r.headers,
                 !.body = r.body, !.after = r.after]

\* the filesystem with entry at comps, under directories, and nothing else
Holding(comps, entry) ==
    [q \in ProperPrefixes(comps) \cup {comps} |-> IF q = comps THEN entry ELSE Dir]

\* filesystems that differ in what is at the path of the route of r: nothing, an
\* empty file, a file with content, a directory
OtherFilesystems(r) ==
    LET comps == IF HasBase(r) THEN Target(r) ELSE Resolve(urls[r.route].url)
    IN  { (<<>> :> Dir), Holding(comps, File(<<>>)),
          Holding(comps, File(Bytes(ShortLen, 1))), Holding(comps, Dir) }

\* C14: on a route with a read_token, a GET whose Authorization header is missing
\* or does not match is answered 401 with the challenge header and the body
\* '401', and the same request is answered with that very response whatever the
\* filesystem holds at the path: never 404, never 200.
C14_UnauthorisedGetSameResponse ==
    \A h \in DOMAIN reqs :
        LET r == reqs[h]
        IN  (/\ r.method = "GET"
             /\ s_read_token \in DOMAIN SettingsOf(r)
             /\ ~Presents(r, SettingsOf(r)[s_read_token])) =>
                /\ r.pc = "done" /\ r.status = 401
                /\ r.rheaders = (s_WWW_Authenticate :> s_realm)
                /\ r.out = Text401
                /\ \A f \in OtherFilesystems(r) \cup {fs} :
                      get_begin(RequestOf(r), urls[r.route].kwargs.path,
                                SettingsOf(r), f).resp = r

\* a GET with another token's header was refused while the file is stored
C14_Witness ==
    \E h \in DOMAIN reqs :
        LET r == reqs[h]
        IN  /\ r.method = "GET" /\ r.status = 401
            /\ s_read_token \in DOMAIN SettingsOf(r)
            /\ s_Authorization \in DOMAIN r.headers
            /\ ~Presents(r, SettingsOf(r)[s_read_token])
            /\ HasBase(r) /\ IsFile(fs, Target(r)) /\ fs[Target(r)].data # <<>>

(******************************* C15 **************************************)

\* C15: when the flush of a chunk finds the connection closed by the peer, the
\* handler only awaits the pending sleep and then ends: from the failed flush on
\* nothing is read from the file, nothing is given to self.write and nothing
\* reaches the peer, and the request ends with the status it had (200) and
\* without the headers or body of write_error.
C15_StopsAtClosedStream ==
    [][\A h \in DOMAIN reqs :
          LET r == reqs[h]
              rr == reqs'[h]
          IN  /\ (r.pc = "get_flush" /\ r.closed /\ rr # r) =>
                    /\ rr.pc = "get_sleep" /\ rr.broke
                    /\ rr.reads = r.reads /\ rr.writes = r.writes /\ rr.out = r.out
                    /\ rr.status = 200 /\ rr.rheaders = EmptyDict
              /\ (r.pc = "get_sleep" /\ r.broke /\ rr # r) =>
                    /\ rr.pc = "done"
                    /\ rr.reads = r.reads /\ rr.writes = r.writes /\ rr.out = r.out
                    /\ rr.status = 200 /\ rr.rheaders = EmptyDict
    ]_vars

\* a GET ended after the flush of its second chunk failed, with more of the file
\* left to send: two reads, two chunks written, one chunk with the peer
C15_Witness ==
    \E h \in DOMAIN reqs :
        LET r == reqs[h]
        IN  /\ r.method = "GET" /\ r.pc = "done" /\ r.closed /\ r.broke
            /\ r.status = 200 /\ r.rheaders = EmptyDict
            /\ r.reads = 2 /\ Len(r.writes) = 2 /\ r.out = SubSeq(r.snap, 1, ChunkSize)
            /\ Len(r.snap) > 2 * ChunkSize

(******************************* C16 **************************************)

\* no node above the entry at p sets _base_directory
NoBaseAbove(cfg, p) ==
    Nearest(cfg, SubSeq(p, 1, Len(p) - 1), s_base_directory) = Missing

\* C16: build_urls returns, without raising, a route for every leaf that has no
\* base_directory above it, and that route has no base_directory; every GET and
\* every PUT to such a route that passes the token check is answered 500 by
\* write_error, and the step leaves every file and directory as it was.
C16_NoBaseFailsAtRequestTime ==
    [][/\ (app = "init" /\ app' # "init" /\ IsTree(config)) =>
             /\ app' = "running"
             /\ \A p \in LeafPaths(config) :
                   NoBaseAbove(config, p) =>
                       \E i \in 1..Len(urls') :
                           /\ urls'[i].url = UrlOf(p)
                           /\ s_base_directory \notin DOMAIN urls'[i].kwargs.settings
       /\ \A h \in DOMAIN reqs :
             LET rr == reqs'[h]
             IN  (/\ app = "running" /\ rr # reqs[h]
                  /\ rr.method \in {"GET", "PUT"}
                  /\ ~HasBase(rr)
                  /\ rr.method = "GET" => MayRead(rr)
                  /\ rr.method = "PUT" => MayWrite(rr)) =>
                     /\ rr.pc = "done" /\ rr.status = 500 /\ rr.out = Text500
                     /\ fs' = fs
    ]_vars

\* beside a route that has stored a file, the route without base_directory has
\* answered 500 to a PUT with a body
C16_Witness ==
    /\ \E p \in LeafPaths(config) : NoBaseAbove(config, p)
    /\ \E q \in DOMAIN fs : fs[q].kind = "file" /\ fs[q].data # <<>>
    /\ \E h \in DOMAIN reqs :
          LET r == reqs[h]
          IN  /\ r.method = "PUT" /\ ~HasBase(r) /\ MayWrite(r)
              /\ r.body # <<>> /\ r.status = 500 /\ r.after.put

(******************************* C17 **************************************)

\* C17: no step of a GET (its arrival with whatever answer, the end of a flush or
\* of a sleep, the peer's disconnect) changes the filesystem, and once the server
\* runs no step of a GET or a PUT changes the routing table: it stays the list
\* that build_urls returns for the configuration.
C17_GetReadOnlyRoutesFixed ==
    [][/\ \A h \in DOMAIN reqs :
             (reqs'[h] # reqs[h] /\ reqs'[h].method = "GET") => fs' = fs
       /\ app = "running" =>
             /\ urls' = urls /\ config' = config /\ app' = "running"
             /\ urls' = build_urls(config, <<>>, EmptyDict).urls
    ]_vars

\* on a server with two routes a GET has delivered a stored file of more than one
\* chunk, and the file and the routes are as they were
C17_Witness ==
    /\ Len(urls) >= 2
    /\ urls = build_urls(config, <<>>, EmptyDict).urls
    /\ \E h \in DOMAIN reqs :
          LET r == reqs[h]
          IN  /\ r.method = "GET" /\ r.pc = "done" /\ r.status = 200 /\ ~r.closed
              /\ Len(r.out) > ChunkSize /\ fs[r.file].data = r.out
              /\ r.after.put

(******************************* C18 **************************************)

\* the GET of r is over, answered 200 to a peer that stayed connected
Streamed(r) == r.method = "GET" /\ r.pc = "done" /\ r.status = 200 /\ ~r.closed

\* C18: a GET of a file of n bytes that nothing writes meanwhile, to a peer that
\* stays connected, ends; by then it has given ceil(n / 1024) chunks to
\* self.write, each of 1024 bytes but the last, which has 1 to 1024, none when
\* n = 0, the chunks in order being the file's content; and it has awaited
\* gen.sleep once after each chunk written, before the next read.
C18_ChunkedTransfer ==
    /\ [](\A h \in DOMAIN reqs :
             LET r == reqs[h]
                 n == Len(r.snap)
                 k == Len(r.writes)
             IN  /\ r.pc = "get_flush" => r.sleeps = k - 1 /\ r.reads = k
                 /\ r.pc = "get_sleep" => r.sleeps = k /\ r.reads = k
                 /\ Streamed(r) =>
                       /\ k = (n + ChunkSize - 1) \div ChunkSize
                       /\ \A i \in 1..(k - 1) : r.writes[i] = ChunkSize
                       /\ k > 0 => r.writes[k] \in 1..ChunkSize
                       /\ r.out = r.snap /\ r.snap = fs[r.file].data
                       /\ r.sleeps = k /\ r.reads = k + 1)
    /\ \A h \in SequentialHandlers :
          (reqs[h].pc \in {"get_flush", "get_sleep"}) ~> (reqs[h].pc = "done")

\* a GET has streamed a file of two full chunks and a short one
C18_Witness ==
    \E h \in DOMAIN reqs :
        LET r == reqs[h]
        IN  /\ Streamed(r)
            /\ r.writes = <<ChunkSize, ChunkSize, ShortLen>>
            /\ r.sleeps = 3 /\ r.reads = 4
            /\ r.out = Bytes(2 * ChunkSize + ShortLen, 3)

====
